---- MODULE Spec2Model ----
(***************************************************************************)
(* Authenticated GraphQL transport of the frontend                        *)
(* (frontend/src/libs/apolloClient.ts): bearer-token attachment, the      *)
(* UNAUTHENTICATED interception of errorLink, the single-flight refresh   *)
(* with its queue of pending requests, the proactive refresh of           *)
(* initializeApollo, and the login/logout of AuthProvider that write the  *)
(* same localStorage keys.                                                *)
(*                                                                         *)
(* JavaScript is single-threaded: a handler and the promise reactions     *)
(* (.then/.catch/.finally) that follow a settled promise run to           *)
(* completion before the next network event or user event is handled.     *)
(* Each action below is therefore one task together with its microtasks;  *)
(* the suspension points are the network calls (fetch) only.              *)
(***************************************************************************)
EXTENDS Integers, Sequences, FiniteSets, TLC

\* ---------------------------------------------------------------- bounds
NumOps == 2      \* GraphQL operations the application issues
MaxTok == 3      \* token pairs the backend issues (login or refresh)
MaxCalls == 2    \* refresh attempts (invocations of refreshAccessToken)

Ops == 1..NumOps

\* ---------------------------------------------------------------- values
\* localStorage.getItem returns null for a missing key
Absent == << >>
AccessTok(k) == <<"A", k>>
RefreshTok(k) == <<"R", k>>
EmptyStore == [accessToken |-> Absent, refreshToken |-> Absent]
TokenPair(k) == [accessToken |-> AccessTok(k), refreshToken |-> RefreshTok(k)]
UserId(k) == <<"U", k>>
\* what a Login mutation returns and the page hands to login()
Credentials(k) ==
  [accessToken |-> AccessTok(k), refreshToken |-> RefreshTok(k), userId |-> UserId(k)]
NoCredentials == [accessToken |-> Absent, refreshToken |-> Absent, userId |-> Absent]
\* let apolloClient = null; instances are numbered in the order they are created
NoClient == 0

VARIABLES
  store,            \* localStorage keys accessToken / refreshToken
  isRefreshing,     \* apolloClient.ts:85
  pendingRequests,  \* apolloClient.ts:86, callbacks, each closing over one operation
  calls,            \* refresh attempts so far, in the order they were started
  ops,              \* per operation: position in the link chain and what its caller got
  auth,             \* AuthProvider's React state: accessToken, refreshToken, userId
  nextTok,          \* next token pair the backend will issue
  apolloClient,     \* apolloClient.ts:19, the client instance (NoClient: null)
  storedUserId      \* localStorage key userId, written by AuthProvider only

vars ==
  <<store, isRefreshing, pendingRequests, calls, ops, auth, nextTok, apolloClient,
    storedUserId>>

\* ------------------------------------------------- credential store access
getAccessToken(s) == s.accessToken
getRefreshToken(s) == s.refreshToken

setAccessToken(s, token) ==
  IF token # Absent THEN [s EXCEPT !.accessToken = token]
                    ELSE [s EXCEPT !.accessToken = Absent]

setRefreshToken(s, token) ==
  IF token # Absent THEN [s EXCEPT !.refreshToken = token]
                    ELSE [s EXCEPT !.refreshToken = Absent]

logoutKeepsRefresh(s) == [s EXCEPT !.accessToken = Absent]

\* logout(): removes both keys (the Apollo cache reset is not part of the model)
logout(s) == [[s EXCEPT !.accessToken = Absent] EXCEPT !.refreshToken = Absent]

\* ------------------------------------------------------------ AuthProvider
saveToStorageIgnoresNull(s, key, value) ==
  IF value = Absent THEN s ELSE [s EXCEPT ![key] = value]

\* saveToStorage: null removes the key, a string is stored as String(value)
saveToStorage(s, key, value) ==
  IF value = Absent THEN [s EXCEPT ![key] = Absent] ELSE [s EXCEPT ![key] = value]

\* useAuth.tsx line 151
isLoggedIn(a) == a.accessToken # Absent /\ a.refreshToken # Absent /\ a.userId # Absent

\* ------------------------------------------------------- operation names
\* an operation name is the sequence of its characters
NoName == << >>
NameLogin == <<"L", "o", "g", "i", "n">>
NameRequestPasswordResetCode == <<"R", "e", "q", "u", "e", "s", "t", "P", "a", "s", "s", "w", "o", "r", "d", "R", "e", "s", "e", "t", "C", "o", "d", "e">>
NameResetPassword == <<"R", "e", "s", "e", "t", "P", "a", "s", "s", "w", "o", "r", "d">>
NameRegisterFirstAdmin == <<"r", "e", "g", "i", "s", "t", "e", "r", "F", "i", "r", "s", "t", "A", "d", "m", "i", "n">>
NameMe == <<"M", "e">>
NameLogout == <<"L", "o", "g", "o", "u", "t">>

\* the operations the pages and hooks send on their own (Logout leaves
\* from AuthProvider.logout)
AppOperationNames ==
  {NameLogin, NameRequestPasswordResetCode, NameResetPassword,
   NameRegisterFirstAdmin, NameMe}

\* the operations sent in Spec: one name of each class of errorLink
SentNames == {NameLogin, NameMe}

\* String.prototype.toLowerCase on the letters operation names are made of
LowerChar(ch) ==
  CASE ch = "A" -> "a"
    [] ch = "B" -> "b"
    [] ch = "C" -> "c"
    [] ch = "D" -> "d"
    [] ch = "E" -> "e"
    [] ch = "F" -> "f"
    [] ch = "G" -> "g"
    [] ch = "H" -> "h"
    [] ch = "I" -> "i"
    [] ch = "J" -> "j"
    [] ch = "K" -> "k"
    [] ch = "L" -> "l"
    [] ch = "M" -> "m"
    [] ch = "N" -> "n"
    [] ch = "O" -> "o"
    [] ch = "P" -> "p"
    [] ch = "Q" -> "q"
    [] ch = "R" -> "r"
    [] ch = "S" -> "s"
    [] ch = "T" -> "t"
    [] ch = "U" -> "u"
    [] ch = "V" -> "v"
    [] ch = "W" -> "w"
    [] ch = "X" -> "x"
    [] ch = "Y" -> "y"
    [] ch = "Z" -> "z"
    [] OTHER -> ch

toLowerCase(str) == [i \in 1..Len(str) |-> LowerChar(str[i])]

\* lines 195-201
noAuthOperations ==
  {<<"l", "o", "g", "i", "n">>,
   <<"r", "e", "f", "r", "e", "s", "h", "t", "o", "k", "e", "n">>,
   <<"r", "e", "q", "u", "e", "s", "t", "p", "a", "s", "s", "w", "o", "r", "d", "r", "e", "s", "e", "t">>,
   <<"r", "e", "s", "e", "t", "p", "a", "s", "s", "w", "o", "r", "d">>,
   <<"r", "e", "g", "i", "s", "t", "e", "r", "a", "d", "m", "i", "n">>}

ExemptsNothing(name) == FALSE

\* lines 208-209: noAuthOperations.includes(operationName?.toLowerCase())
isAuthOperation(name) == toLowerCase(name) \in noAuthOperations

\* ------------------------------------------------------- link chain pieces
authLinkKeepsHeaders(headers, s) == headers

\* authLink, lines 181-192: the Authorization header of the operation's
\* context is overwritten when an access token is stored and left as it is
\* otherwise (the value stands for "Bearer <value>", Absent for no header)
authLink(headers, s) ==
  IF getAccessToken(s) # Absent THEN getAccessToken(s) ELSE headers

\* operation.setContext of errorLink, lines 226-231 and 248-254
setContext(headers, accessToken) == accessToken

NewOp ==
  [st |-> "new", name |-> NoName, hdr |-> Absent, enq |-> 0, ord |-> 0, res |-> "none"]

\* replayed requests that are on the wire
Forwarded(os) == Cardinality({p \in DOMAIN os : os[p].st = "replay"})

\* forward(operation) from inside errorLink: authLink -> httpLink, the
\* result goes straight to the caller's observer (errorLink is not re-entered)
Forward(os, o, s) ==
  [os EXCEPT ![o] =
     [@ EXCEPT !.st = "replay",
               !.hdr = authLink(setContext(@, getAccessToken(s)), s),
               !.ord = Forwarded(os) + 1]]

\* observer.error(err): the caller gets err, the operation's context is dropped
Reject(os, o, err) ==
  [os EXCEPT ![o] = [@ EXCEPT !.st = "rejected", !.name = NoName, !.hdr = Absent, !.res = err]]

CallbackAlwaysReplays(os, o, s) == Forward(os, o, s)

\* the callback registered at lines 217-237
QueuedCallback(os, o, s) ==
  IF getAccessToken(s) = Absent
    THEN Reject(os, o, "AuthenticationRequired")
    ELSE Forward(os, o, s)

RECURSIVE RunCallbacksLastFirst(_, _, _)
RunCallbacksLastFirst(q, os, s) ==
  IF q = << >> THEN os
  ELSE RunCallbacksLastFirst(SubSeq(q, 1, Len(q) - 1), QueuedCallback(os, q[Len(q)], s), s)

\* pendingRequests.forEach(callback => callback())
RECURSIVE RunCallbacks(_, _, _)
RunCallbacks(q, os, s) ==
  IF q = << >> THEN os
  ELSE RunCallbacks(Tail(q), QueuedCallback(os, Head(q), s), s)

DrainKeepsQueue(q) == q

\* pendingRequests = [] after the forEach, lines 100 and 265
QueueAfterDrain(q) == << >>

\* ----------------------------------------------------------- refresh call
InFlight(cs) == {c \in 1..Len(cs) : cs[c].st = "inflight"}
CallSt(cs, c) == IF c \in 1..Len(cs) THEN cs[c].st ELSE "unused"
\* the refresh call outstanding right now (0 when there is none)
CurrentCall == IF InFlight(calls) = {} THEN 0 ELSE CHOOSE c \in InFlight(calls) : TRUE

AlwaysHasRefreshToken(rt) == TRUE

\* line 109: if (!refreshToken) throw
HasRefreshToken(rt) == rt # Absent

\* what the backend (or the network) answers to the refresh mutation
\* (errors: the extension codes of result.errors, empty when the result has none)
RefreshResponses ==
  {[net |-> TRUE, errors |-> << >>, accessToken |-> Absent, refreshToken |-> Absent],
   [net |-> FALSE, errors |-> <<"UNAUTHENTICATED">>, accessToken |-> Absent, refreshToken |-> Absent],
   [net |-> FALSE, errors |-> <<"OTHER">>, accessToken |-> Absent, refreshToken |-> Absent],
   [net |-> FALSE, errors |-> << >>, accessToken |-> Absent, refreshToken |-> Absent],
   [net |-> FALSE, errors |-> << >>, accessToken |-> AccessTok(nextTok), refreshToken |-> Absent],
   [net |-> FALSE, errors |-> << >>, accessToken |-> Absent, refreshToken |-> RefreshTok(nextTok)],
   [net |-> FALSE, errors |-> << >>, accessToken |-> AccessTok(nextTok), refreshToken |-> RefreshTok(nextTok)]}

RefreshOutcomeAcceptsPartial(resp) ==
  IF resp.net THEN "NetworkError"
  ELSE IF resp.errors # << >> THEN "BackendError"
  ELSE IF resp.accessToken = Absent /\ resp.refreshToken = Absent THEN "InvalidTokenResponse"
  ELSE "ok"

\* lines 113-148: which way refreshAccessToken leaves after the fetch settled
RefreshOutcome(resp) ==
  IF resp.net THEN "NetworkError"
  ELSE IF resp.errors # << >> THEN "BackendError"
  ELSE IF resp.accessToken = Absent \/ resp.refreshToken = Absent THEN "InvalidTokenResponse"
  ELSE "ok"

StoreKeepsOldAccess(s, resp) ==
  IF RefreshOutcome(resp) = "ok"
    THEN setRefreshToken(s, resp.refreshToken)
    ELSE logout(s)

\* lines 141-142 on success, line 146 on every failure inside the try
StoreAfterRefresh(s, resp) ==
  IF RefreshOutcome(resp) = "ok"
    THEN setRefreshToken(setAccessToken(s, resp.accessToken), resp.refreshToken)
    ELSE logout(s)

NewCallSendsAccessToken(by, o, wave, s) ==
  [st |-> "inflight", by |-> by, op |-> o, wave |-> wave, sent |-> getAccessToken(s),
   produced |-> EmptyStore]

\* a refresh attempt: who started it, for which operation, the Authorization
\* header that operation had failed with (its failure wave), and the
\* variables.token of the request, line 127
NewCall(by, o, wave, s) ==
  [st |-> "inflight", by |-> by, op |-> o, wave |-> wave, sent |-> getRefreshToken(s),
   produced |-> EmptyStore]

FlagClearedInThenOnly(outcome) == outcome # "ok"

\* .finally(() => { isRefreshing = false; }), lines 268-270 and 164-166:
\* the value of the flag after an attempt that ended with outcome
FlagAfterFinally(outcome) == FALSE

\* operations sent with the access token t that are still unanswered
Unanswered(os, t) == {p \in DOMAIN os : os[p].st = "sent" /\ os[p].hdr = t}

\* the record of a settled attempt: how it ended and the pair the backend
\* returned; the request itself (initiator, token sent) is gone, and the
\* wave is kept after a success while operations of that wave are still
\* unanswered
Settled(call, outcome, pair, os) ==
  [call EXCEPT !.st = IF outcome = "ok" THEN "ok" ELSE "failed",
               !.op = 0, !.sent = Absent, !.produced = pair,
               !.wave = IF outcome = "ok" /\ Unanswered(os, @) # {} THEN @ ELSE Absent]

\* ----------------------------------------------------------- responses
\* a response to an operation: a transport-level error, or a result whose
\* errors carry these extension codes (empty: data only). onError hands the
\* handler networkError.result.errors as graphQLErrors, so the errors of a
\* failed HTTP response are inspected like those of a result
OpResponses ==
  {[net |-> FALSE, errors |-> << >>],
   [net |-> FALSE, errors |-> <<"OTHER">>],
   [net |-> FALSE, errors |-> <<"UNAUTHENTICATED">>],
   [net |-> FALSE, errors |-> <<"OTHER", "UNAUTHENTICATED">>],
   [net |-> TRUE, errors |-> << >>],
   [net |-> TRUE, errors |-> <<"UNAUTHENTICATED">>]}

AnyErrorIsUnauthenticated(errs) == errs # << >>

\* line 213: err.extensions?.code === 'UNAUTHENTICATED' for some err
HasUnauthenticated(errs) == \E i \in 1..Len(errs) : errs[i] = "UNAUTHENTICATED"

\* the caller's observer gets the response itself; what is kept of it is
\* whether it carries an UNAUTHENTICATED error
ResultKind(resp) ==
  IF HasUnauthenticated(resp.errors) THEN "unauthenticated" ELSE "other"

\* the caller has its response; the operation and its context are dropped
Delivered(resp) == [NewOp EXCEPT !.st = "done", !.res = ResultKind(resp)]

NeverQueue(flag) == FALSE

\* line 215: if (isRefreshing) queue the operation
QueueWhileRefreshing(flag) == flag

ValidationIgnoresFlag(rt, flag) == rt # Absent

\* line 158: if (refreshToken && !isRefreshing)
CanStartValidation(rt, flag) == rt # Absent /\ ~flag

\* ------------------------------------------------------------------ Init
Init ==
  /\ store \in {EmptyStore, TokenPair(1)}
  /\ isRefreshing = FALSE
  /\ pendingRequests = << >>
  /\ calls = << >>
  /\ ops = [o \in Ops |-> NewOp]
  \* what AuthProvider reads from the three keys when it mounts in the
  \* first render, before anything can have written them
  /\ auth = IF store = EmptyStore THEN NoCredentials ELSE Credentials(1)
  /\ nextTok = 2
  \* the module is loaded and App has not rendered yet
  /\ apolloClient = NoClient
  /\ storedUserId = IF store = EmptyStore THEN Absent ELSE UserId(1)

\* --------------------------------------------------------------- actions
\* The application issues operation o: errorLink -> authLink -> httpLink
\* (operations are numbered in the order the application issues them)
Send(o, n) ==
  /\ apolloClient # NoClient
  /\ ops[o].st = "new"
  /\ \A p \in DOMAIN ops : p < o => ops[p].st # "new"
  /\ ops' = [ops EXCEPT ![o] = [@ EXCEPT !.st = "sent", !.name = n,
                                         !.hdr = authLink(@, store)]]
  /\ UNCHANGED <<store, isRefreshing, pendingRequests, calls, auth, nextTok, apolloClient, storedUserId>>

\* errorLink, no UNAUTHENTICATED error: the handler returns nothing and
\* the response goes to the caller
Deliver(o, resp) ==
  /\ ops' = [ops EXCEPT ![o] = Delivered(resp)]
  /\ UNCHANGED <<store, isRefreshing, pendingRequests, calls, auth, nextTok, apolloClient, storedUserId>>

EnqueueDropsAccessToken(o) ==
  /\ pendingRequests' = Append(pendingRequests, o)
  /\ ops' = [ops EXCEPT ![o] = [@ EXCEPT !.st = "queued", !.name = NoName,
                                         !.hdr = Absent, !.enq = CurrentCall]]
  /\ store' = setAccessToken(store, Absent)
  /\ UNCHANGED <<isRefreshing, calls, auth, nextTok, apolloClient, storedUserId>>

\* errorLink lines 215-239 (the name is not read again once the handler
\* ran, and the header the operation failed with is overwritten by
\* setContext before it is forwarded again)
Enqueue(o) ==
  /\ pendingRequests' = Append(pendingRequests, o)
  /\ ops' = [ops EXCEPT ![o] = [@ EXCEPT !.st = "queued", !.name = NoName,
                                         !.hdr = Absent, !.enq = CurrentCall]]
  /\ UNCHANGED <<store, isRefreshing, calls, auth, nextTok, apolloClient, storedUserId>>

RefreshFailFastKeepsFlag(o) ==
  /\ calls' = Append(calls, Settled(NewCall("errorLink", o, ops[o].hdr, store),
                                     "NoRefreshToken", EmptyStore, ops))
  /\ ops' = Reject(RunCallbacks(pendingRequests, ops, store), o, "NoRefreshToken")
  /\ pendingRequests' = << >>
  /\ isRefreshing' = TRUE
  /\ UNCHANGED <<store, auth, nextTok, apolloClient, storedUserId>>

\* errorLink lines 241-271 when refreshAccessToken throws at line 110: the
\* promise is already rejected, so .catch and .finally follow in the same task
RefreshFailFast(o) ==
  /\ calls' = Append(calls, Settled(NewCall("errorLink", o, ops[o].hdr, store),
                                     "NoRefreshToken", EmptyStore, ops))
  /\ ops' = Reject(RunCallbacks(pendingRequests, ops, store), o, "NoRefreshToken")
  /\ pendingRequests' = QueueAfterDrain(pendingRequests)
  /\ isRefreshing' = FlagAfterFinally("NoRefreshToken")
  /\ UNCHANGED <<store, auth, nextTok, apolloClient, storedUserId>>

\* errorLink lines 241-245 and refreshAccessToken up to the fetch at line 114
RefreshStart(o) ==
  /\ isRefreshing' = TRUE
  /\ calls' = Append(calls, NewCall("errorLink", o, ops[o].hdr, store))
  /\ ops' = [ops EXCEPT ![o] = [@ EXCEPT !.st = "waiting", !.name = NoName, !.hdr = Absent]]
  /\ UNCHANGED <<store, pendingRequests, auth, nextTok, apolloClient, storedUserId>>

\* A response to the first send of o reaches errorLink
Respond(o, resp) ==
  /\ ops[o].st = "sent"
  /\ IF HasUnauthenticated(resp.errors) /\ ~isAuthOperation(ops[o].name)
       THEN IF QueueWhileRefreshing(isRefreshing)
              THEN Enqueue(o)
              ELSE /\ Len(calls) < MaxCalls
                   /\ IF HasRefreshToken(getRefreshToken(store))
                        THEN RefreshStart(o)
                        ELSE RefreshFailFast(o)
       ELSE Deliver(o, resp)

ReplayThroughErrorLink(o, resp) ==
  /\ ops[o].st = "replay"
  /\ IF HasUnauthenticated(resp.errors)
       THEN IF QueueWhileRefreshing(isRefreshing)
              THEN Enqueue(o)
              ELSE Len(calls) < MaxCalls /\ RefreshStart(o)
       ELSE Deliver(o, resp)

\* A response to a replayed operation: forward is the rest of the chain
\* below errorLink, so forward(operation).subscribe hands the response to
\* the caller's observer without errorLink seeing it
ReplayRespond(o, resp) ==
  /\ ops[o].st = "replay"
  /\ ops' = [ops EXCEPT ![o] = Delivered(resp)]
  /\ UNCHANGED <<store, isRefreshing, pendingRequests, calls, auth, nextTok, apolloClient, storedUserId>>

\* createApolloClient: a new instance, different from every earlier one
createApolloClient(prev) == prev + 1

WindowUndefinedOnServer == TRUE

\* typeof window === 'undefined', line 314: the application runs in a browser
WindowUndefined == FALSE

InitializeApolloUnguarded ==
  /\ apolloClient' = IF apolloClient = NoClient \/ WindowUndefined
                       THEN createApolloClient(apolloClient)
                       ELSE apolloClient
  /\ Len(calls) < MaxCalls
  /\ isRefreshing' = TRUE
  /\ calls' = Append(calls, NewCall("init", 0, Absent, store))
  /\ UNCHANGED <<store, pendingRequests, ops, auth, nextTok, storedUserId>>

\* initializeApollo, lines 313-320, called by every render of App, with
\* performTokenValidation, lines 154-169
InitializeApollo ==
  /\ apolloClient' = IF apolloClient = NoClient \/ WindowUndefined
                       THEN createApolloClient(apolloClient)
                       ELSE apolloClient
  /\ IF CanStartValidation(getRefreshToken(store), isRefreshing)
       THEN /\ Len(calls) < MaxCalls
            /\ isRefreshing' = TRUE
            /\ calls' = Append(calls, NewCall("init", 0, Absent, store))
       ELSE UNCHANGED <<isRefreshing, calls>>
  /\ UNCHANGED <<store, pendingRequests, ops, auth, nextTok, storedUserId>>

RefreshSettleInitiatorFirst(c, resp) ==
  LET outcome == RefreshOutcome(resp)
      s2 == StoreAfterRefresh(store, resp)
      done == Settled(calls[c], outcome,
                      IF outcome = "ok"
                        THEN [accessToken |-> resp.accessToken,
                              refreshToken |-> resp.refreshToken]
                        ELSE EmptyStore,
                      ops)
  IN
  /\ c \in InFlight(calls)
  /\ resp \in RefreshResponses
  /\ outcome = "ok" => nextTok <= MaxTok
  /\ store' = s2
  /\ nextTok' = IF outcome = "ok" THEN nextTok + 1 ELSE nextTok
  /\ calls' = [calls EXCEPT ![c] = done]
  /\ isRefreshing' = FlagAfterFinally(outcome)
  /\ UNCHANGED <<auth, apolloClient, storedUserId>>
  /\ IF calls[c].by = "errorLink"
       THEN /\ pendingRequests' = QueueAfterDrain(pendingRequests)
            /\ ops' = IF outcome = "ok"
                        THEN RunCallbacks(pendingRequests,
                                          Forward(ops, calls[c].op, s2), s2)
                        ELSE Reject(RunCallbacks(pendingRequests, ops, s2),
                                    calls[c].op, outcome)
       ELSE UNCHANGED <<pendingRequests, ops>>

\* The refresh call c settles with resp; the continuation of
\* refreshAccessToken and the reactions of its caller run
RefreshSettle(c, resp) ==
  LET outcome == RefreshOutcome(resp)
      s2 == StoreAfterRefresh(store, resp)
      done == Settled(calls[c], outcome,
                      IF outcome = "ok"
                        THEN [accessToken |-> resp.accessToken,
                              refreshToken |-> resp.refreshToken]
                        ELSE EmptyStore,
                      ops)
  IN
  /\ c \in InFlight(calls)
  /\ resp \in RefreshResponses
  /\ outcome = "ok" => nextTok <= MaxTok
  /\ store' = s2
  /\ nextTok' = IF outcome = "ok" THEN nextTok + 1 ELSE nextTok
  /\ calls' = [calls EXCEPT ![c] = done]
  /\ isRefreshing' = FlagAfterFinally(outcome)
  /\ UNCHANGED <<auth, apolloClient, storedUserId>>
  /\ IF calls[c].by = "errorLink"
       THEN /\ pendingRequests' = QueueAfterDrain(pendingRequests)
            /\ ops' = IF outcome = "ok"
                        \* .then, lines 246-262
                        THEN Forward(RunCallbacks(pendingRequests, ops, s2),
                                     calls[c].op, s2)
                        \* .catch, lines 263-267
                        ELSE Reject(RunCallbacks(pendingRequests, ops, s2),
                                    calls[c].op, outcome)
       \* performTokenValidation: .catch logs, .finally clears the flag
       ELSE UNCHANGED <<pendingRequests, ops>>

\* The operation the application issues next
NextOp == IF \E o \in DOMAIN ops : ops[o].st = "new"
            THEN CHOOSE o \in DOMAIN ops :
                   ops[o].st = "new" /\ \A p \in DOMAIN ops : p < o => ops[p].st # "new"
            ELSE 0

\* AuthProvider.login with what a Login mutation returned; the login and
\* register pages sit under AuthLayout, which shows them only while
\* isLoggedIn is false. The hook writes localStorage.userId as well, which
\* nothing else writes
AuthProviderLogin ==
  LET cred == Credentials(nextTok) IN
  /\ apolloClient # NoClient
  /\ ~isLoggedIn(auth)
  /\ nextTok <= MaxTok
  /\ auth' = cred
  /\ store' = saveToStorage(saveToStorage(store, "accessToken", cred.accessToken),
                            "refreshToken", cred.refreshToken)
  /\ nextTok' = nextTok + 1
  /\ storedUserId' = saveToStorage([userId |-> storedUserId], "userId", cred.userId).userId
  /\ UNCHANGED <<isRefreshing, pendingRequests, calls, ops, apolloClient>>

\* AuthProvider.logout, from the home page under AppLayout (isLoggedIn):
\* the Logout mutation leaves through the link chain before the keys are
\* removed
AuthProviderLogout ==
  /\ apolloClient # NoClient
  /\ isLoggedIn(auth)
  /\ IF auth.refreshToken # Absent
       THEN /\ NextOp # 0
            /\ ops' = [ops EXCEPT ![NextOp] =
                         [@ EXCEPT !.st = "sent", !.name = NameLogout,
                                   !.hdr = authLink(@, store)]]
       ELSE ops' = ops
  /\ auth' = NoCredentials
  /\ store' = saveToStorage(saveToStorage(store, "accessToken", Absent),
                            "refreshToken", Absent)
  /\ storedUserId' = saveToStorage([userId |-> storedUserId], "userId", Absent).userId
  /\ UNCHANGED <<isRefreshing, pendingRequests, calls, nextTok, apolloClient>>

Next ==
  \/ \E o \in Ops, n \in SentNames : Send(o, n)
  \/ \E o \in Ops, resp \in OpResponses : Respond(o, resp)
  \/ \E o \in Ops, resp \in OpResponses : ReplayRespond(o, resp)
  \/ InitializeApollo
  \/ \E c \in 1..MaxCalls, resp \in RefreshResponses : RefreshSettle(c, resp)
  \/ AuthProviderLogin
  \/ AuthProviderLogout

Spec == Init /\ [][Next]_vars

\* Every request on the wire is answered in the end and the reactions of
\* the settled promise run; what the user does (send, login, logout, a new
\* render) is not forced
Fairness ==
  /\ WF_vars(\E o \in Ops, resp \in OpResponses : Respond(o, resp))
  /\ WF_vars(\E o \in Ops, resp \in OpResponses : ReplayRespond(o, resp))
  /\ WF_vars(\E c \in 1..MaxCalls, resp \in RefreshResponses : RefreshSettle(c, resp))

SpecFair == Spec /\ Fairness

\* The same program when the pages send every operation name they have
NextAllNames ==
  \/ \E o \in Ops, n \in AppOperationNames : Send(o, n)
  \/ \E o \in Ops, resp \in OpResponses : Respond(o, resp)
  \/ \E o \in Ops, resp \in OpResponses : ReplayRespond(o, resp)
  \/ InitializeApollo
  \/ \E c \in 1..MaxCalls, resp \in RefreshResponses : RefreshSettle(c, resp)
  \/ AuthProviderLogin
  \/ AuthProviderLogout

SpecAllNames == Init /\ [][NextAllNames]_vars

\* One session with one more operation, so that two operations can wait in
\* pendingRequests behind the operation that started the refresh: the user
\* is logged in, stays so, and the pages send protected operations
WaveOps == 1..(NumOps + 1)

InitWave ==
  /\ store = TokenPair(1)
  /\ isRefreshing = FALSE
  /\ pendingRequests = << >>
  /\ calls = << >>
  /\ ops = [o \in WaveOps |-> NewOp]
  /\ auth = Credentials(1)
  /\ nextTok = 2
  /\ apolloClient = NoClient
  /\ storedUserId = UserId(1)

NextWave ==
  \/ \E o \in WaveOps : Send(o, NameMe)
  \/ \E o \in WaveOps, resp \in OpResponses : Respond(o, resp)
  \/ \E o \in WaveOps, resp \in OpResponses : ReplayRespond(o, resp)
  \/ InitializeApollo
  \/ \E c \in 1..MaxCalls, resp \in RefreshResponses : RefreshSettle(c, resp)

SpecWave == InitWave /\ [][NextWave]_vars

TypeOK ==
  /\ isRefreshing \in BOOLEAN
  /\ Len(calls) <= MaxCalls
  /\ nextTok \in 2..(MaxTok + 1)
  /\ \A i \in 1..Len(pendingRequests) : pendingRequests[i] \in DOMAIN ops

\* ------------------------------------------------------------ properties
Queue(q) == {q[i] : i \in 1..Len(q)}
\* operation o got an UNAUTHENTICATED response to its first send in this step
FailedUnauthenticated(o) == ops[o].st = "sent" /\ ops'[o].st \notin {"sent", "done"}
\* the refresh attempt c ends in this step with the given state
Settles(c, st) == CallSt(calls, c) # st /\ CallSt(calls', c) = st

\* C1: in every reachable state at most one refresh network call is
\* outstanding, and no step taken while isRefreshing is true starts a
\* refresh attempt, whichever entry point is hit
C1_SingleFlight ==
  /\ [](Cardinality(InFlight(calls)) <= 1)
  /\ [][isRefreshing => Len(calls') = Len(calls)]_vars

\* a proactive refresh is in flight and an operation that failed meanwhile
\* was queued instead of starting a second call
C1_Witness ==
  /\ isRefreshing
  /\ Cardinality(InFlight(calls)) = 1
  /\ calls[CurrentCall].by = "init"
  /\ pendingRequests # << >>

\* C2: of the protected operations that fail with UNAUTHENTICATED in one
\* wave, the first (state IDLE) sets isRefreshing and starts exactly one
\* refresh attempt, and every other one is only appended to
\* pendingRequests: while an initiator waits, the one call in flight is its
\* own
C2_OneRefreshPerWave ==
  /\ [](\A o \in Ops : ops[o].st = "waiting" =>
          /\ isRefreshing
          /\ \E c \in InFlight(calls) :
               InFlight(calls) = {c} /\ calls[c].op = o /\ calls[c].by = "errorLink")
  /\ [][\A o \in Ops : FailedUnauthenticated(o) =>
          IF isRefreshing
            THEN /\ ops'[o].st = "queued"
                 /\ pendingRequests' = Append(pendingRequests, o)
                 /\ calls' = calls
                 /\ isRefreshing'
                 /\ store' = store
            ELSE /\ Len(calls') = Len(calls) + 1
                 /\ ops'[o].st \in {"waiting", "rejected"}
                 /\ ops'[o].st = "waiting" => isRefreshing'
                 /\ pendingRequests' \in {pendingRequests, << >>}]_vars

\* the first failure started the refresh, the second one was queued behind it
C2_Witness ==
  \E o, p \in Ops :
    /\ ops[o].st = "waiting"
    /\ ops[p].st = "queued"
    /\ ops[p].enq = CurrentCall
    /\ calls[CurrentCall].op = o
    /\ Len(calls) = 1

\* C3: whenever isRefreshing is false the pending queue is empty
C3_IdleQueueEmpty == ~isRefreshing => pendingRequests = << >>

\* C4: when the refresh that was in flight at its enqueue time settles, a
\* queued operation leaves the queue and is either replayed or rejected
C4_QueuedSettledWithRefresh ==
  [][\A o \in Ops :
       (/\ ops[o].st = "queued"
        /\ ops[o].enq \in InFlight(calls)
        /\ ops[o].enq \notin InFlight(calls'))
       => /\ ops'[o].st \in {"replay", "rejected"}
          /\ o \notin Queue(pendingRequests')]_vars

\* C5: a queued operation's continuation runs only after the refresh in
\* flight at its enqueue time has settled, and a replayed one carries the
\* access token that this very refresh call produced
C5_ReplayUsesOwnRefresh ==
  \A o \in Ops :
    (ops[o].enq > 0 /\ ops[o].st \in {"replay", "rejected"}) =>
      /\ calls[ops[o].enq].st # "inflight"
      /\ ops[o].st = "replay" =>
           /\ calls[ops[o].enq].st = "ok"
           /\ ops[o].hdr = calls[ops[o].enq].produced.accessToken

\* C6: when a refresh call succeeds returning {accessToken: a,
\* refreshToken: r}, the store then holds exactly a and r, and the
\* operation that initiated the refresh is reissued with Bearer a
C6_SuccessStoresAndReplays ==
  [][\A c \in 1..MaxCalls : Settles(c, "ok") =>
       /\ calls'[c].produced.accessToken # Absent
       /\ calls'[c].produced.refreshToken # Absent
       /\ store' = calls'[c].produced
       /\ calls[c].by = "errorLink" =>
            /\ ops'[calls[c].op].st = "replay"
            /\ ops'[calls[c].op].hdr = calls'[c].produced.accessToken]_vars

\* a refresh started by errorLink succeeded and its initiator is in flight
\* again with the new access token
C6_Witness ==
  \E c \in 1..Len(calls), o \in Ops :
    /\ calls[c].st = "ok"
    /\ calls[c].by = "errorLink"
    /\ store = calls[c].produced
    /\ ops[o].st = "replay"
    /\ ops[o].enq = 0
    /\ ops[o].hdr = calls[c].produced.accessToken

\* C7: after a refresh attempt fails (network error, missing refresh
\* token, response lacking a token, backend rejection), from either entry
\* point, both tokens are absent from the store
C7_FailureClearsStore ==
  [][\A c \in 1..MaxCalls : Settles(c, "failed") => store' = EmptyStore]_vars

\* the proactive refresh, sent with the stored refresh token, failed and
\* left the store empty although AuthProvider still holds the old pair
C7_Witness ==
  \E c \in 1..Len(calls) :
    /\ calls[c].st = "failed"
    /\ calls[c].by = "init"
    /\ isLoggedIn(auth)
    /\ store = EmptyStore

\* C8: when a refresh started by errorLink fails, every operation queued
\* during it is rejected with an authentication-required error and none is
\* forwarded
C8_FailureRejectsQueued ==
  [][\A c \in InFlight(calls), o \in Ops :
       (/\ calls[c].by = "errorLink"
        /\ Settles(c, "failed")
        /\ ops[o].st = "queued"
        /\ ops[o].enq = c)
       => /\ ops'[o].st = "rejected"
          /\ ops'[o].res = "AuthenticationRequired"]_vars

\* an operation queued during an errorLink refresh that failed, rejected
C8_Witness ==
  \E o \in Ops :
    /\ ops[o].st = "rejected"
    /\ ops[o].res = "AuthenticationRequired"
    /\ ops[o].enq > 0
    /\ calls[ops[o].enq].st = "failed"
    /\ calls[ops[o].enq].by = "errorLink"

\* C9: when a refresh fails, the operation that initiated it is rejected
\* with the authentication-required error the queued operations get
C9_InitiatorAuthRequired ==
  \A o \in Ops :
    (ops[o].st = "rejected" /\ ops[o].enq = 0) => ops[o].res = "AuthenticationRequired"

\* C10: a protected operation failing with UNAUTHENTICATED while IDLE with
\* no refresh token stored starts exactly one refresh attempt, which fails
\* without a network call; the operation is rejected, not replayed, and
\* isRefreshing is false again
C10_NoRefreshTokenFailsFast ==
  [][\A o \in Ops :
       (/\ FailedUnauthenticated(o)
        /\ ~isRefreshing
        /\ getRefreshToken(store) = Absent)
       => /\ Len(calls') = Len(calls) + 1
          /\ calls'[Len(calls')].st = "failed"
          /\ InFlight(calls') = InFlight(calls)
          /\ ops'[o].st = "rejected"
          /\ ~isRefreshing']_vars

\* an operation rejected because no refresh token was stored
C10_Witness ==
  \E o \in Ops :
    /\ ops[o].st = "rejected"
    /\ ops[o].res = "NoRefreshToken"
    /\ ~isRefreshing
    /\ InFlight(calls) = {}

\* C11: an UNAUTHENTICATED response to an exempt operation never triggers
\* the refresh procedure and never enqueues the operation: isRefreshing,
\* pendingRequests and the store are unchanged, no refresh attempt is
\* added, and the response is delivered to the caller as it is
C11_ExemptNeverRefreshes ==
  [][\A o \in Ops :
       (/\ ops[o].st = "sent"
        /\ toLowerCase(ops[o].name) \in noAuthOperations
        /\ ops'[o] # ops[o])
       => /\ ops'[o].st = "done"
          /\ ops'[o].res \in {"unauthenticated", "other"}
          /\ isRefreshing' = isRefreshing
          /\ pendingRequests' = pendingRequests
          /\ store' = store
          /\ calls' = calls]_vars

\* an operation got UNAUTHENTICATED handed through although no refresh
\* attempt was ever made: a protected one would have started one
C11_Witness ==
  \E o \in Ops :
    /\ ops[o].st = "done"
    /\ ops[o].res = "unauthenticated"
    /\ calls = << >>
    /\ ~isRefreshing
    /\ pendingRequests = << >>

\* the names the pages give to the operations that the exempt set is meant
\* for: login, password-reset request, password-reset apply, first-admin
\* registration
ExemptPurposeNames ==
  {NameLogin, NameRequestPasswordResetCode, NameResetPassword, NameRegisterFirstAdmin}

\* C12: each operation name the application issues for login, password-reset
\* request, password-reset apply and first-admin registration is, lower-cased,
\* a member of noAuthOperations, and every other operation name is classified
\* as protected
C12_ExemptSetCoversNames ==
  \A o \in Ops :
    ops[o].st = "sent" =>
      (isAuthOperation(ops[o].name) <=> ops[o].name \in ExemptPurposeNames)

\* C13: isRefreshing is true exactly while a refresh attempt is in flight (an
\* attempt in flight is never abandoned); the step in which the attempt
\* settles leaves the flag false, on success and on every failure path,
\* the missing refresh token included; and an UNAUTHENTICATED response to a
\* protected operation observed while the flag is false starts a new attempt
C13_FlagClearedWhenSettled ==
  /\ [](isRefreshing <=> InFlight(calls) # {})
  /\ [][\A c \in 1..MaxCalls :
          (CallSt(calls, c) = "inflight" /\ CallSt(calls', c) # "inflight")
          => /\ CallSt(calls', c) \in {"ok", "failed"}
             /\ ~isRefreshing']_vars
  /\ [][(Len(calls') > Len(calls) /\ calls'[Len(calls')].st = "failed")
          => ~isRefreshing']_vars
  /\ [][\A o \in Ops :
          (FailedUnauthenticated(o) /\ ~isRefreshing)
          => /\ Len(calls') = Len(calls) + 1
             /\ calls'[Len(calls')].by = "errorLink"
             /\ calls'[Len(calls')].op \in {0, o}]_vars

\* after a failed attempt the flag was false again, and the next
\* UNAUTHENTICATED response started the attempt that is now in flight
C13_Witness ==
  /\ Len(calls) = 2
  /\ calls[1].st = "failed"
  /\ calls[2].st = "inflight"
  /\ calls[2].by = "errorLink"
  /\ isRefreshing

\* C14: a replayed operation (the initiator or a queued one) that fails
\* again with UNAUTHENTICATED is delivered to its caller; it is not enqueued
\* again and starts no refresh, and an operation is replayed only out of
\* its one wait for a refresh, so every operation is replayed at most once
C14_ReplayedAtMostOnce ==
  [][\A o \in Ops :
       /\ (ops[o].st = "replay" /\ ops'[o] # ops[o])
          => /\ ops'[o].st = "done"
             /\ calls' = calls
             /\ pendingRequests' = pendingRequests
             /\ isRefreshing' = isRefreshing
             /\ store' = store
       /\ (ops'[o].st = "replay" /\ ops[o].st # "replay")
          => ops[o].st \in {"waiting", "queued"}
       /\ (ops'[o].st \in {"waiting", "queued"} /\ ops[o].st # ops'[o].st)
          => ops[o].st = "sent"]_vars

\* operation 1, the only one sent so far, started the one refresh, was
\* replayed after it succeeded, failed again with UNAUTHENTICATED and got
\* that response; nothing is queued and no second refresh was started
C14_Witness ==
  /\ Len(calls) = 1
  /\ calls[1].by = "errorLink"
  /\ calls[1].st = "ok"
  /\ ops[1].st = "done"
  /\ ops[1].res = "unauthenticated"
  /\ \A p \in Ops : p # 1 => ops[p].st = "new"
  /\ pendingRequests = << >>
  /\ ~isRefreshing

\* C15: the operations waiting in pendingRequests are replayed in the order
\* in which they were enqueued: of two that the same step forwards, the one
\* enqueued first goes on the wire first
C15_ReplayInEnqueueOrder ==
  [][\A i, j \in 1..Len(pendingRequests) :
       (/\ i < j
        /\ ops[pendingRequests[i]].st = "queued"
        /\ ops[pendingRequests[j]].st = "queued"
        /\ ops'[pendingRequests[i]].st = "replay"
        /\ ops'[pendingRequests[j]].st = "replay")
       => ops'[pendingRequests[i]].ord < ops'[pendingRequests[j]].ord]_vars

\* two operations queued during the same refresh are on the wire again,
\* one after the other, followed by the operation that started the refresh
C15_Witness ==
  \E a, b, i \in WaveOps :
    /\ ops[a].st = "replay" /\ ops[b].st = "replay" /\ ops[i].st = "replay"
    /\ ops[a].enq > 0
    /\ ops[b].enq = ops[a].enq
    /\ calls[ops[a].enq].st = "ok"
    /\ ops[i].enq = 0
    /\ ops[a].ord = 1 /\ ops[b].ord = 2 /\ ops[i].ord = 3

\* C16: operations that were all sent with the same access token and all
\* fail with UNAUTHENTICATED cause one refresh call in total: once a refresh
\* call started by such a failure has succeeded, no second call is sent
\* for a failure of an operation that carried the same token
C16_OneRefreshPerToken ==
  \A c, d \in 1..Len(calls) :
    (/\ c < d
     /\ calls[c].by = "errorLink"
     /\ calls[d].by = "errorLink"
     /\ calls[c].wave # Absent
     /\ calls[c].wave = calls[d].wave
     /\ calls[c].st = "ok")
    => calls[d].st \notin {"inflight", "ok"}

\* C17: a refresh call that was in flight when a login or a logout changed
\* the store (the stored refresh token is no longer the one the call was
\* sent with) leaves the store as it finds it when it settles: it neither
\* overwrites nor clears the tokens of that login and does not re-populate
\* the store after that logout
C17_RefreshKeepsLoginLogout ==
  [][\A c \in 1..MaxCalls :
       (/\ CallSt(calls, c) = "inflight"
        /\ CallSt(calls', c) # "inflight"
        /\ getRefreshToken(store) # calls[c].sent)
       => store' = store]_vars

\* a refresh attempt has failed and the store is empty
RefreshFailureClearedStore ==
  /\ store = EmptyStore
  /\ \E c \in 1..Len(calls) : calls[c].st = "failed"

\* C18: after a refresh failure has cleared the store, AuthProvider's
\* isLoggedIn eventually becomes false (AppLayout then redirects to /login)
C18_FailureReachesAuthProvider ==
  RefreshFailureClearedStore ~> ~isLoggedIn(auth)

\* C19: every operation the transport forwards carries the access token
\* that the store holds at the moment of forwarding, and no Authorization
\* header when the store holds none: on the first send the store as the
\* step finds it (logout sends its mutation before it removes the keys), on
\* a replay the store as the settled refresh left it
C19_HeaderIsStoredToken ==
  [][\A o \in Ops :
       /\ (ops[o].st = "new" /\ ops'[o].st = "sent")
          => ops'[o].hdr = getAccessToken(store)
       /\ (ops[o].st # "replay" /\ ops'[o].st = "replay")
          => ops'[o].hdr = getAccessToken(store')]_vars

\* one operation went out without a header while nothing was stored, and
\* another one is replayed with the access token the store holds now
C19_Witness ==
  \E o, p \in Ops :
    /\ ops[p].st = "sent"
    /\ ops[p].hdr = Absent
    /\ ops[o].st = "replay"
    /\ ops[o].hdr # Absent
    /\ ops[o].hdr = getAccessToken(store)

\* C20: a refresh call carries the refresh token stored when the refresh
\* procedure starts, and its response does not pass through errorLink: the
\* step in which the call settles, whatever the response, starts no refresh
\* attempt, leaves none in flight and enqueues nothing
C20_RefreshCallOutsideChain ==
  [][\A c \in 1..MaxCalls :
       /\ (CallSt(calls, c) # "inflight" /\ CallSt(calls', c) = "inflight")
          => /\ calls'[c].sent = getRefreshToken(store)
             /\ calls'[c].sent # Absent
       /\ (CallSt(calls, c) = "inflight" /\ CallSt(calls', c) # "inflight")
          => /\ Len(calls') = Len(calls)
             /\ InFlight(calls') = {}
             /\ ~isRefreshing'
             /\ pendingRequests' \in {pendingRequests, << >>}
             /\ \A o \in Ops : ops'[o].st = "queued" => ops[o].st = "queued"]_vars

\* the one refresh call was answered with an error: its initiator got the
\* backend's error, no further attempt exists and nothing is queued
C20_Witness ==
  /\ Len(calls) = 1
  /\ calls[1].st = "failed"
  /\ calls[1].by = "errorLink"
  /\ \E o \in Ops : ops[o].st = "rejected" /\ ops[o].res = "BackendError"
  /\ ~isRefreshing
  /\ pendingRequests = << >>

\* C21: initializeApollo starts a proactive refresh only when a refresh
\* token is stored and isRefreshing is false; a call that starts none
\* leaves isRefreshing, pendingRequests and the store unchanged (and so does
\* the start itself, but for the flag); and while a proactive refresh is in
\* flight the next operation can be sent
C21_ProactiveRefreshGuarded ==
  /\ [][(Len(calls') > Len(calls) /\ calls'[Len(calls')].by = "init")
          => /\ getRefreshToken(store) # Absent
             /\ ~isRefreshing
             /\ calls'[Len(calls')].st = "inflight"
             /\ isRefreshing'
             /\ pendingRequests' = pendingRequests
             /\ store' = store]_vars
  /\ [][(apolloClient' # apolloClient /\ Len(calls') = Len(calls))
          => /\ isRefreshing' = isRefreshing
             /\ pendingRequests' = pendingRequests
             /\ store' = store]_vars
  /\ [](\A o \in Ops :
          (/\ CurrentCall # 0
           /\ calls[CurrentCall].by = "init"
           /\ NextOp = o)
          => ENABLED Send(o, NameMe))

\* the first render started the proactive refresh, and an operation was
\* sent while that call is still in flight
C21_Witness ==
  /\ Len(calls) = 1
  /\ calls[1].by = "init"
  /\ calls[1].st = "inflight"
  /\ store = TokenPair(1)
  /\ nextTok = 2
  /\ \E o \in Ops : ops[o].st = "sent" /\ ops[o].hdr = AccessTok(1)

\* C22: the proactive refresh runs at most once in the lifetime of the
\* transport: of all calls of initializeApollo only one starts a refresh
C22_ProactiveRefreshOnce ==
  Cardinality({c \in 1..Len(calls) : calls[c].by = "init"}) <= 1

\* the operation got its response handed through in this step and nothing
\* of the transport changed
PassedThrough(o) ==
  /\ ops'[o].st = "done"
  /\ ops'[o].res = "other"
  /\ isRefreshing' = isRefreshing
  /\ pendingRequests' = pendingRequests
  /\ store' = store
  /\ calls' = calls

\* C23: a response to a sent operation whose errors carry no
\* UNAUTHENTICATED code, a transport-level error included, is handed to
\* the caller as it is and leaves isRefreshing, pendingRequests and the
\* store unchanged: no refresh, no enqueue, no replay
C23_OtherErrorsPassThrough ==
  [](\A o \in Ops, resp \in OpResponses :
       (/\ ops[o].st = "sent"
        /\ \A i \in 1..Len(resp.errors) : resp.errors[i] # "UNAUTHENTICATED")
       => /\ ENABLED (Respond(o, resp) /\ PassedThrough(o))
          /\ ~ENABLED (Respond(o, resp) /\ ~PassedThrough(o)))

\* a protected operation (Logout, the only operation sent so far) was
\* answered without UNAUTHENTICATED and got its response, while the
\* proactive refresh went on undisturbed
C23_Witness ==
  /\ ops[1].st = "done"
  /\ ops[1].res = "other"
  /\ \A p \in Ops : p # 1 => ops[p].st = "new"
  /\ auth = NoCredentials
  /\ nextTok = 2
  /\ Len(calls) = 1
  /\ calls[1].st = "inflight"
  /\ pendingRequests = << >>

\* the three steps that write the token keys
LoginStep ==
  /\ ~isLoggedIn(auth)
  /\ isLoggedIn(auth')
  /\ store' = [accessToken |-> auth'.accessToken, refreshToken |-> auth'.refreshToken]
LogoutStep ==
  /\ isLoggedIn(auth)
  /\ auth' = NoCredentials
  /\ store' = EmptyStore
RefreshCompletionStep ==
  \E c \in InFlight(calls) :
    /\ calls'[c].st \in {"ok", "failed"}
    /\ store' = IF calls'[c].st = "ok" THEN calls'[c].produced ELSE EmptyStore

\* C24: the stored token pair changes only in a login, in a refresh
\* completion (success writes the new pair, failure clears it) and in a
\* logout; sending, enqueueing, replaying an operation and receiving an
\* operation response leave both tokens unchanged
C24_StoreWrittenByLoginRefreshLogout ==
  [][store' # store => (LoginStep \/ LogoutStep \/ RefreshCompletionStep)]_vars

\* operations were sent, enqueued and replayed around one refresh, nobody
\* logged in or out, and the store holds the pair that refresh produced
C24_Witness ==
  /\ auth = Credentials(1)
  /\ Len(calls) = 2
  /\ calls[2].by = "errorLink"
  /\ calls[2].st = "ok"
  /\ store = calls[2].produced
  /\ store = TokenPair(3)
  /\ \A o \in Ops : ops[o].st = "replay" /\ ops[o].hdr = AccessTok(3)
  /\ \E o \in Ops : ops[o].enq = 2

\* an entry point (performTokenValidation or errorLink) started a refresh
\* call in this step
RefreshStartedStep ==
  /\ Len(calls') = Len(calls) + 1
  /\ calls'[Len(calls')].st = "inflight"
  /\ calls'[Len(calls')].by \in {"init", "errorLink"}
  /\ InFlight(calls) = {}

\* the refresh call that was in flight completed in this step
RefreshCompletedStep ==
  /\ Len(calls') = Len(calls)
  /\ InFlight(calls) # {}
  /\ \A c \in InFlight(calls) : calls'[c].st \in {"ok", "failed"}

\* C25: isRefreshing becomes true only in a step in which an entry point
\* starts a refresh, and false only in the step that completes that same
\* refresh; every other step (send, enqueue, drain, replay, login, logout)
\* leaves the flag as it is, so the flag is true exactly while a refresh
\* call is in flight
C25_FlagSingleWriter ==
  /\ [][(~isRefreshing /\ isRefreshing') => RefreshStartedStep]_vars
  /\ [][(isRefreshing /\ ~isRefreshing') => RefreshCompletedStep]_vars
  /\ [](isRefreshing <=> InFlight(calls) # {})
  /\ [](Cardinality(InFlight(calls)) <= 1)

\* the flag is up for a refresh started by errorLink while an operation
\* was enqueued, another user logged out and in again, and a further
\* operation is on the wire
C25_Witness ==
  /\ isRefreshing
  /\ Len(calls) = 2
  /\ calls[1].st = "failed"
  /\ calls[2].st = "inflight"
  /\ calls[2].by = "errorLink"
  /\ pendingRequests # << >>
  /\ auth = Credentials(2)

\* C26: in a browser initializeApollo creates the client on its first
\* call only; every later call returns the instance the first call created
\* and never replaces it
C26_ClientCreatedOnce ==
  /\ [][apolloClient # NoClient => apolloClient' = apolloClient]_vars
  /\ [](apolloClient \in {NoClient, createApolloClient(NoClient)})

\* initializeApollo ran at least twice (each of the two proactive refresh
\* calls was started by one run) and the client is still the first instance
C26_Witness ==
  /\ apolloClient = createApolloClient(NoClient)
  /\ Len(calls) = 2
  /\ calls[1].by = "init"
  /\ calls[2].by = "init"

\* both tokens stored, or neither
PairedTokens(s) == (s.accessToken = Absent) <=> (s.refreshToken = Absent)

\* C27: from a store that holds both tokens or neither, every reachable
\* store holds both or neither: login and a successful refresh write both,
\* logout and a failed refresh call remove both, and a refresh response
\* that lacks a token counts as a failure and stores neither
C27_TokensStoredInPairs ==
  /\ [](PairedTokens(store))
  /\ [][\A c \in InFlight(calls) :
          calls'[c].st = "failed" => store' = EmptyStore]_vars
  /\ [][\A c \in InFlight(calls) :
          calls'[c].st = "ok" =>
            store' = calls'[c].produced /\ store'.accessToken # Absent
                                        /\ store'.refreshToken # Absent]_vars

\* the refresh started for an operation was answered without a complete
\* token pair: the operation's caller got "Invalid token response" and
\* the store, which held a pair, holds neither token
C27_Witness ==
  /\ store = EmptyStore
  /\ \E o \in Ops : ops[o].st = "rejected" /\ ops[o].res = "InvalidTokenResponse"
  /\ \E c \in 1..Len(calls) : calls[c].by = "errorLink" /\ calls[c].st = "failed"

\* the operations whose continuations are in the queue
Pending == {pendingRequests[i] : i \in 1..Len(pendingRequests)}

\* a drain ran in this step: an errorLink refresh completed, or failed for
\* want of a refresh token
DrainStep ==
  \/ \E c \in InFlight(calls) :
       calls[c].by = "errorLink" /\ calls'[c].st \in {"ok", "failed"}
  \/ /\ Len(calls') = Len(calls) + 1
     /\ calls'[Len(calls')].by = "errorLink"
     /\ calls'[Len(calls')].st = "failed"

\* C28: a drain invokes each enqueued continuation once and leaves
\* pendingRequests empty, on refresh success and on failure: the queue
\* holds each waiting operation once and nothing else, an operation leaves
\* it only by being replayed or rejected in a drain, and it never comes
\* back, so no later refresh cycle replays or rejects it again
C28_ContinuationRunsOnce ==
  /\ [](\A i, j \in 1..Len(pendingRequests) :
          pendingRequests[i] = pendingRequests[j] => i = j)
  /\ [](\A o \in Ops : o \in Pending <=> ops[o].st = "queued")
  /\ [][DrainStep =>
          /\ pendingRequests' = << >>
          /\ \A o \in Pending : ops'[o].st \in {"replay", "rejected"}]_vars
  /\ [][\A o \in Ops :
          (ops[o].st = "queued" /\ ops'[o].st # "queued") => DrainStep]_vars
  /\ [][\A o \in Ops :
          ops[o].st \in {"replay", "rejected", "done"} =>
            /\ ops'[o].st \notin {"queued", "waiting"}
            /\ (ops[o].st \in {"rejected", "done"} => ops'[o] = ops[o])
            /\ (ops'[o].st = "replay" => ops'[o] = ops[o])]_vars

\* operation 2 was enqueued during the refresh that operation 1 started;
\* the drain of that refresh replayed it and emptied the queue, and the
\* refresh is over
C28_Witness ==
  /\ Len(calls) = 1
  /\ calls[1].by = "errorLink"
  /\ calls[1].st = "ok"
  /\ ~isRefreshing
  /\ pendingRequests = << >>
  /\ ops[1].st = "replay" /\ ops[1].enq = 0
  /\ ops[2].st = "replay" /\ ops[2].enq = 1
  /\ ops[2].ord < ops[1].ord

\* C29: when a refresh started by errorLink succeeds, every queued
\* operation is reissued before the operation that started the refresh,
\* and all of them are reissued in the completion of that refresh, which
\* begins with isRefreshing true and clears the flag only after the drain
C29_QueuedReissuedBeforeInitiator ==
  /\ [][\A c \in InFlight(calls) :
          (calls[c].by = "errorLink" /\ calls'[c].st = "ok") =>
            /\ isRefreshing
            /\ ~isRefreshing'
            /\ pendingRequests' = << >>
            /\ ops'[calls[c].op].st = "replay"
            /\ \A o \in Pending :
                 /\ ops'[o].st = "replay"
                 /\ ops'[o].ord < ops'[calls[c].op].ord]_vars
  /\ [][\A o \in Ops :
          (ops[o].st # "replay" /\ ops'[o].st = "replay") =>
            /\ isRefreshing
            /\ \E c \in InFlight(calls) :
                 calls[c].by = "errorLink" /\ calls'[c].st = "ok"]_vars

\* operation 1 started the refresh and operation 2 was queued behind it;
\* the refresh succeeded, operation 2 went out first and operation 1
\* second, both with the new access token, and the flag is down
C29_Witness ==
  /\ ~isRefreshing
  /\ \E c \in 1..Len(calls) :
       /\ calls[c].by = "errorLink"
       /\ calls[c].st = "ok"
       /\ ops[2].enq = c
       /\ ops[1].hdr = calls[c].produced.accessToken
       /\ ops[2].hdr = calls[c].produced.accessToken
  /\ ops[1].st = "replay" /\ ops[1].ord = 2
  /\ ops[2].st = "replay" /\ ops[2].ord = 1

\* AuthProvider.logout ran in this step
AuthLogoutStep == isLoggedIn(auth) /\ auth' = NoCredentials

\* the Logout mutation left through the link chain in this step
LogoutMutationSent ==
  \E o \in Ops : ops[o].st = "new" /\ ops'[o].st = "sent" /\ ops'[o].name = NameLogout

\* C30: AuthProvider.logout ends with accessToken, refreshToken and userId
\* absent from its state and from the store, whatever becomes of the
\* Logout mutation (its answer touches neither), and it sends the mutation
\* only when its state holds a refresh token
C30_LogoutClearsEverything ==
  /\ [][AuthLogoutStep =>
          /\ store' = EmptyStore
          /\ storedUserId' = Absent
          /\ (LogoutMutationSent <=> auth.refreshToken # Absent)]_vars
  /\ [][LogoutMutationSent => (AuthLogoutStep /\ auth.refreshToken # Absent)]_vars
  /\ [][\A o \in Ops :
          (ops[o].st = "sent" /\ ops[o].name = NameLogout /\ ops'[o] # ops[o]) =>
            /\ store' = store
            /\ auth' = auth
            /\ storedUserId' = storedUserId]_vars

\* a user logged in and out again; the Logout mutation (operation 1) was
\* answered UNAUTHENTICATED and failed, and state and store hold no token
\* and no user id
C30_Witness ==
  /\ auth = NoCredentials
  /\ store = EmptyStore
  /\ storedUserId = Absent
  /\ nextTok = 3
  /\ ops[1].st = "rejected"
  /\ ops[1].res = "NoRefreshToken"
  /\ \A o \in Ops : o # 1 => ops[o].st = "new"
====
